---- MODULE Spec2Model ----
(***************************************************************************)
(* Model of viswsl/utils/distributed.py: the two process-group             *)
(* initializers (init_distributed_env, init_distributed_tcp) and the       *)
(* helpers synchronize, get_world_size, get_rank, is_master_process and    *)
(* average_across_processes.                                               *)
(*                                                                         *)
(* Every participant is one single-threaded OS process.  The collective    *)
(* runtime (torch.distributed) is modelled by its contract at the places   *)
(* where the code calls it: init_process_group either joins the caller to  *)
(* the group or raises, barrier() releases a caller once world_size        *)
(* participants have entered the same barrier (or raises), all_reduce(SUM) *)
(* leaves the element-wise sum in the caller's tensor.                     *)
(*                                                                         *)
(* Strings are sequences of tokens; os.environ is a function whose domain  *)
(* is the set of variables that are set.                                   *)
(***************************************************************************)
EXTENDS Integers, Sequences, FiniteSets, TLC

\* ------------------------------------------------------------------ bounds
\* largest number of processes of one job (Spec)
MaxWorld == 4
\* largest number a numeric environment variable or argument holds (SpecEnv)
MaxNum == 2
\* the scalar a process feeds to average_across_processes is 0 or MaxVal
MaxVal == 1

\* ----------------------------------------------------------------- strings
Digits == <<"0", "1", "2", "3", "4", "5", "6", "7", "8", "9">>

DigitVal(c) == (CHOOSE i \in 1..10 : Digits[i] = c) - 1

\* str(n) for n >= 0, as the launchers write numbers into the environment
RECURSIVE str(_)
str(n) == IF n < 10 THEN <<Digits[n + 1]>>
          ELSE str(n \div 10) \o <<Digits[(n % 10) + 1]>>

\* int(s) for a string of decimal digits (leading zeros are accepted)
RECURSIVE int(_)
int(s) == IF Len(s) = 0 THEN 0
          ELSE 10 * int(SubSeq(s, 1, Len(s) - 1)) + DigitVal(s[Len(s)])

\* s.split(",")[-1]: what follows the last comma, or all of s
SplitLast(s) ==
    LET commas == {i \in 1..Len(s) : s[i] = ","}
    IN  IF commas = {} THEN s
        ELSE LET i == CHOOSE j \in commas : \A k \in commas : k <= j
             IN  SubSeq(s, i + 1, Len(s))

localhost == <<"localhost">>

\* default of the dist_url parameter of init_distributed_tcp
dist_url == <<"tcp://", "127.0.0.1", ":", "23456">>

\* ------------------------------------------------------------- os.environ
EnvVars == {"MASTER_ADDR", "MASTER_PORT", "RANK", "WORLD_SIZE", "LOCAL_RANK",
            "SLURM_NODELIST", "SLURM_PROCID", "SLURM_NTASKS", "SLURM_LOCALID"}

\* os.environ.get(k, default)
environ_get(env, k, default) == IF k \in DOMAIN env THEN env[k] ELSE default

\* os.environ[k] = v
environ_set(env, k, v) ==
    [x \in (DOMAIN env) \cup {k} |-> IF x = k THEN v ELSE env[x]]

\* ---------------------------------------------------------------- tensors
\* a scalar tensor holds a rational, kept in lowest terms: <<num, den>>
RECURSIVE GCD(_, _)
GCD(a, b) == IF b = 0 THEN a ELSE GCD(b, a % b)

Frac(n, d) == LET g == GCD(n, d) IN IF g = 0 THEN <<0, 1>> ELSE <<n \div g, d \div g>>

\* t /= k
TrueDiv(t, k) == Frac(t[1], t[2] * k)

RECURSIVE SumOver(_, _)
SumOver(S, f) == IF S = {} THEN 0
                 ELSE LET x == CHOOSE y \in S : TRUE
                      IN  f[x] + SumOver(S \ {x}, f)

\* ------------------------------------------------------------------ state
VARIABLES
    mode,       \* "env": the job calls init_distributed_env; "tcp": init_distributed_tcp
    cuda,       \* cuda[p]: torch.cuda.is_available() in process p
    host,       \* host[p]: the physical machine process p runs on
    args,       \* args[p]: the arguments of init_distributed_tcp
    environ0,   \* environ0[p]: os.environ when the initializer is called
    environ,    \* environ[p]: os.environ of process p
    frame,      \* frame[p]: the locals world_size, world_rank of init_distributed_tcp
    pc,         \* pc[p]: where process p is
    exc,        \* exc[p]: the exception in flight or raised to the caller ("" if none)
    caught,     \* caught[p]: the exception `e` the except clause has bound ("" if none)
    log,        \* log[p]: the lines logger.error has written
    dist,       \* dist[p]: torch.distributed's view in p: initialized, rank, world_size
    initcalls,  \* initcalls[p]: the (rank, world_size) of each init_process_group call
    arrived,    \* arrived[k]: who has entered the k-th barrier of the group
    nsync,      \* nsync[p]: the number of barrier() calls p has made
    devices,    \* devices[p]: the indices passed to torch.cuda.set_device
    ret,        \* ret[p]: the initializer's return value (<<>> before it returns)
    tin,        \* tin[p]: the value p passes to average_across_processes
    t,          \* t[p]: the content of the caller's tensor object
    tret        \* tret[p]: the value average_across_processes returned

vars == <<mode, cuda, host, args, environ0, environ, frame, pc, exc, caught, log, dist,
          initcalls, arrived, nsync, devices, ret, tin, t, tret>>

job == <<mode, cuda, host, args, environ0>>

Procs == DOMAIN pc

\* remote members of the group that are not modelled as processes (SpecEnv)
Peers == {0 - k : k \in 1..(MaxNum * MaxNum - 1)}

\* ------------------------------------------------------------ the queries
\* dist.is_initialized()
is_initialized(p) == dist[p].initialized

\* mutant of get_world_size: the group is asked without the is_initialized guard
get_world_size_unguarded(p) == dist[p].world_size

get_world_size(p) == IF is_initialized(p) THEN dist[p].world_size ELSE 1

\* mutant of get_rank: the rank of the group is never asked for
get_rank_zero(p) == 0

get_rank(p) == IF is_initialized(p) THEN dist[p].rank ELSE 0

is_master_process(p) == get_rank(p) = 0

\* ------------------------------------------------- configuration resolved
\* the address init_distributed_env writes to MASTER_ADDR
ResolveAddr(env) ==
    environ_get(env, "MASTER_ADDR",
                SplitLast(environ_get(env, "SLURM_NODELIST", localhost)))

\* mutant of ResolveRank: the scheduler's variable is preferred to the override
ResolveRank_schedulerFirst(env) ==
    environ_get(env, "SLURM_PROCID", environ_get(env, "RANK", <<"0">>))

ResolveRank(env) == environ_get(env, "RANK", environ_get(env, "SLURM_PROCID", <<"0">>))

ResolveWorldSize(env) ==
    environ_get(env, "WORLD_SIZE", environ_get(env, "SLURM_NTASKS", <<"1">>))

ResolveLocalRank(env) ==
    int(environ_get(env, "LOCAL_RANK", environ_get(env, "SLURM_LOCALID", <<"0">>)))

TcpWorldSize(a) == a.num_machines * a.num_gpus_per_machine

\* mutant of TcpWorldRank: machines are spaced by num_machines
TcpWorldRank_machines(a) == a.machine_rank * a.num_machines + a.local_rank

\* mutant of TcpWorldRank: the machine rank is not scaled
TcpWorldRank_unscaled(a) == a.machine_rank + a.local_rank

TcpWorldRank(a) == a.machine_rank * a.num_gpus_per_machine + a.local_rank

\* the world size the `if` of the initializer tests
WorldSizeTested(p) ==
    IF mode = "env" THEN int(environ[p]["WORLD_SIZE"]) ELSE frame[p].world_size

\* the (rank, world_size) init_process_group is given: env:// reads them from
\* $RANK and $WORLD_SIZE, init_distributed_tcp passes its locals
InitArgs(p) ==
    IF mode = "env"
    THEN [rank |-> int(environ[p]["RANK"]), world_size |-> int(environ[p]["WORLD_SIZE"])]
    ELSE [rank |-> frame[p].world_rank, world_size |-> frame[p].world_size]

\* the device index the initializer binds and returns
LocalRank(p) == IF mode = "env" THEN ResolveLocalRank(environ[p]) ELSE args[p].local_rank

\* the line the except clause logs
DistUrlLine(p) ==
    IF mode = "env"
    THEN <<"Dist URL: ">> \o environ[p]["MASTER_ADDR"] \o <<":">> \o environ[p]["MASTER_PORT"]
    ELSE <<"Dist URL: ">> \o dist_url

\* os.environ after the three assignments of init_distributed_env
ResolvedEnviron(env) ==
    LET e1 == environ_set(env, "MASTER_ADDR", ResolveAddr(env))
        e2 == environ_set(e1, "RANK", ResolveRank(e1))
        e3 == environ_set(e2, "WORLD_SIZE", ResolveWorldSize(e2))
    IN  e3

\* ---------------------------------------------------------------- actions
\* mutant of AssertCuda: the assertion is made after the environment is resolved
AssertCuda_afterResolve(p) ==
    /\ pc[p] = "start"
    /\ environ' = IF mode = "env"
                  THEN [environ EXCEPT ![p] = ResolvedEnviron(environ[p])]
                  ELSE environ
    /\ IF cuda[p]
       THEN /\ pc' = [pc EXCEPT ![p] = IF mode = "env" THEN "resolve" ELSE "compute"]
            /\ exc' = exc
       ELSE /\ pc' = [pc EXCEPT ![p] = "raised"]
            /\ exc' = [exc EXCEPT ![p] = "AssertionError"]
    /\ UNCHANGED <<job, caught, frame, log, dist, initcalls, arrived, nsync,
                   devices, ret, tin, t, tret>>

\* assert torch.cuda.is_available()
AssertCuda(p) ==
    /\ pc[p] = "start"
    /\ IF cuda[p]
       THEN /\ pc' = [pc EXCEPT ![p] = IF mode = "env" THEN "resolve" ELSE "compute"]
            /\ exc' = exc
       ELSE /\ pc' = [pc EXCEPT ![p] = "raised"]
            /\ exc' = [exc EXCEPT ![p] = "AssertionError"]
    /\ UNCHANGED <<job, caught, environ, frame, log, dist, initcalls, arrived, nsync,
                   devices, ret, tin, t, tret>>

\* the three assignments to os.environ
ResolveEnv(p) ==
    /\ pc[p] = "resolve"
    /\ environ' = [environ EXCEPT ![p] = ResolvedEnviron(environ[p])]
    /\ pc' = [pc EXCEPT ![p] = "try"]
    /\ UNCHANGED <<job, caught, frame, exc, log, dist, initcalls, arrived, nsync,
                   devices, ret, tin, t, tret>>

\* world_size and world_rank of init_distributed_tcp
ComputeTcp(p) ==
    /\ pc[p] = "compute"
    /\ frame' = [frame EXCEPT ![p] = [world_size |-> TcpWorldSize(args[p]),
                                      world_rank |-> TcpWorldRank(args[p])]]
    /\ pc' = [pc EXCEPT ![p] = "try"]
    /\ UNCHANGED <<job, caught, environ, exc, log, dist, initcalls, arrived, nsync,
                   devices, ret, tin, t, tret>>

\* dist.init_process_group cannot rendezvous over env:// without $MASTER_PORT
CanRendezvous(p) == mode = "env" => "MASTER_PORT" \in DOMAIN environ[p]

\* `if world_size > 1: dist.init_process_group(...)`, the call returning
InitProcessGroup(p) ==
    /\ pc[p] = "try"
    /\ WorldSizeTested(p) > 1
    /\ CanRendezvous(p)
    /\ initcalls' = [initcalls EXCEPT ![p] = Append(@, InitArgs(p))]
    /\ dist' = [dist EXCEPT ![p] = [initialized |-> TRUE,
                                    rank |-> InitArgs(p).rank,
                                    world_size |-> InitArgs(p).world_size]]
    /\ pc' = [pc EXCEPT ![p] = "sync"]
    /\ UNCHANGED <<job, caught, environ, frame, exc, log, arrived, nsync, devices, ret,
                   tin, t, tret>>

\* `if world_size > 1: dist.init_process_group(...)`, the call raising
InitProcessGroupFails(p) ==
    /\ pc[p] = "try"
    /\ WorldSizeTested(p) > 1
    /\ initcalls' = [initcalls EXCEPT ![p] = Append(@, InitArgs(p))]
    /\ exc' = [exc EXCEPT ![p] = IF CanRendezvous(p) THEN "RuntimeError" ELSE "ValueError"]
    /\ pc' = [pc EXCEPT ![p] = "except"]
    /\ UNCHANGED <<job, caught, environ, frame, log, dist, arrived, nsync, devices, ret,
                   tin, t, tret>>

\* world_size <= 1: init_distributed_env leaves the try block,
\* init_distributed_tcp goes on to its synchronize()
SkipInit(p) ==
    /\ pc[p] = "try"
    /\ ~(WorldSizeTested(p) > 1)
    /\ pc' = [pc EXCEPT ![p] = IF mode = "env" THEN "bind" ELSE "sync"]
    /\ UNCHANGED <<job, caught, environ, frame, exc, log, dist, initcalls, arrived, nsync,
                   devices, ret, tin, t, tret>>

\* mutant of synchronize: no barrier
synchronize_nobarrier(p, waiting, after) ==
    /\ pc' = [pc EXCEPT ![p] = after]
    /\ UNCHANGED <<nsync, arrived>>

\* synchronize(): with a group the caller enters dist.barrier() and blocks at
\* `waiting`; without one it returns at once and goes on at `after`
synchronize(p, waiting, after) ==
    IF is_initialized(p)
    THEN /\ nsync' = [nsync EXCEPT ![p] = @ + 1]
         /\ arrived' = [arrived EXCEPT ![nsync[p] + 1] = @ \cup {p}]
         /\ pc' = [pc EXCEPT ![p] = waiting]
    ELSE /\ pc' = [pc EXCEPT ![p] = after]
         /\ UNCHANGED <<nsync, arrived>>

\* the synchronize() of the initializers
SynchronizeInit(p) ==
    /\ pc[p] = "sync"
    /\ synchronize(p, "barrier", "bind")
    /\ UNCHANGED <<job, caught, environ, frame, exc, log, dist, initcalls, devices, ret,
                   tin, t, tret>>

\* a remote member of the group enters the first barrier (the remote members
\* are interchangeable: they are numbered in the order they arrive)
PeerArrive(k) ==
    /\ k \in Peers
    /\ k = 0 - (Cardinality(arrived[1] \cap Peers) + 1)
    /\ \E p \in Procs : is_initialized(p) /\ Cardinality(arrived[1]) < dist[p].world_size
    /\ arrived' = [arrived EXCEPT ![1] = @ \cup {k}]
    /\ UNCHANGED <<job, caught, environ, frame, pc, exc, log, dist, initcalls, nsync,
                   devices, ret, tin, t, tret>>

\* dist.barrier() returns: every member of the group has entered it
BarrierExit(p) ==
    /\ pc[p] \in {"barrier", "sync_barrier"}
    /\ Cardinality(arrived[nsync[p]]) = dist[p].world_size
    /\ pc' = [pc EXCEPT ![p] = IF pc[p] = "barrier" THEN "bind" ELSE "synced"]
    /\ UNCHANGED <<job, caught, environ, frame, exc, log, dist, initcalls, arrived, nsync,
                   devices, ret, tin, t, tret>>

\* dist.barrier() raises (the runtime's timeout); inside the initializer the
\* except clause catches it, elsewhere it reaches the caller
BarrierFails(p) ==
    /\ pc[p] \in {"barrier", "sync_barrier"}
    /\ exc' = [exc EXCEPT ![p] = "RuntimeError"]
    /\ pc' = [pc EXCEPT ![p] = IF pc[p] = "barrier" THEN "except" ELSE "raised"]
    /\ UNCHANGED <<job, caught, environ, frame, log, dist, initcalls, arrived, nsync,
                   devices, ret, tin, t, tret>>

\* except Exception as e: logger.error(f"Dist URL: ..."); raise e
\* the f-string of init_distributed_env subscripts os.environ: a KeyError
\* when $MASTER_PORT is not set
ExceptClause(p) ==
    /\ pc[p] = "except"
    /\ caught' = [caught EXCEPT ![p] = exc[p]]
    /\ IF mode = "env" /\ "MASTER_PORT" \notin DOMAIN environ[p]
       THEN /\ exc' = [exc EXCEPT ![p] = "KeyError"]
            /\ log' = log
       ELSE /\ log' = [log EXCEPT ![p] = Append(@, DistUrlLine(p))]
            /\ exc' = [exc EXCEPT ![p] = caught'[p]]
    /\ pc' = [pc EXCEPT ![p] = "raised"]
    /\ UNCHANGED <<job, environ, frame, dist, initcalls, arrived, nsync, devices,
                   ret, tin, t, tret>>

\* torch.cuda.set_device(local_rank); return local_rank
BindDevice(p) ==
    /\ pc[p] = "bind"
    /\ devices' = [devices EXCEPT ![p] = Append(@, LocalRank(p))]
    /\ ret' = [ret EXCEPT ![p] = <<LocalRank(p)>>]
    /\ pc' = [pc EXCEPT ![p] = "done"]
    /\ UNCHANGED <<job, caught, environ, frame, exc, log, dist, initcalls, arrived, nsync,
                   tin, t, tret>>

\* synchronize() called by the training code after the initializer returned
SynchronizeCall(p) ==
    /\ pc[p] = "done"
    /\ synchronize(p, "sync_barrier", "synced")
    /\ UNCHANGED <<job, caught, environ, frame, exc, log, dist, initcalls, devices, ret,
                   tin, t, tret>>

\* the members that have entered the all_reduce of average_across_processes
InAllReduce == {q \in Procs : is_initialized(q) /\ pc[q] \in {"allreduce", "averaged"}}

\* average_across_processes(t) up to dist.all_reduce: v is the caller's value
\* of t; without a group the function returns t at once
AverageEnter(p, v) ==
    /\ pc[p] = "synced"
    /\ tin' = [tin EXCEPT ![p] = v]
    /\ t' = [t EXCEPT ![p] = Frac(v, 1)]
    /\ IF is_initialized(p)
       THEN /\ pc' = [pc EXCEPT ![p] = "allreduce"]
            /\ tret' = tret
       ELSE /\ pc' = [pc EXCEPT ![p] = "averaged"]
            /\ tret' = [tret EXCEPT ![p] = <<Frac(v, 1)>>]
    /\ UNCHANGED <<job, caught, environ, frame, exc, log, dist, initcalls, arrived, nsync,
                   devices, ret>>

\* mutant of average: the sum is not divided
average_sum(p, sum) == Frac(sum, 1)

\* t /= get_world_size(), applied to the sum all_reduce left in t
average(p, sum) == TrueDiv(Frac(sum, 1), get_world_size(p))

\* dist.all_reduce(t, op=SUM) returns once every member has contributed, with
\* the sum in t; then t /= get_world_size(); return t
AllReduceExit(p) ==
    /\ pc[p] = "allreduce"
    /\ Cardinality(InAllReduce) = dist[p].world_size
    /\ t' = [t EXCEPT ![p] = average(p, SumOver(InAllReduce, tin))]
    /\ tret' = [tret EXCEPT ![p] = <<t'[p]>>]
    /\ pc' = [pc EXCEPT ![p] = "averaged"]
    /\ UNCHANGED <<job, caught, environ, frame, exc, log, dist, initcalls, arrived, nsync,
                   devices, ret, tin>>

\* ------------------------------------------------------------- launching
\* a dict from a set of <<key, value>> pairs
MkEnv(pairs) ==
    [k \in {pr[1] : pr \in pairs} |-> (CHOOSE pr \in pairs : pr[1] = k)[2]]

Port == <<"29500">>

\* the node list SLURM hands to a job on nm machines: n0,n1,...
RECURSIVE NodeList(_)
NodeList(nm) == IF nm <= 1 THEN <<"n", "0">>
                ELSE NodeList(nm - 1) \o <<",", "n">> \o str(nm - 1)

\* process p of a job of nm machines with g processes each: machine and slot
MachineOf(p, g) == (p - 1) \div g
SlotOf(p, g) == (p - 1) % g

\* the ways a job is launched: by SLURM, by a launcher that sets all five
\* variables, by hand without $LOCAL_RANK, by hand with $RANK alone, with
\* nothing set, or through init_distributed_tcp
Launchers == {"slurm", "launch", "manual", "rankonly", "bare", "tcp"}

\* the launches that name no world size: every process runs on its own
Ungrouped == {"rankonly", "bare"}

LaunchEnv(style, nm, g, p, portSet) ==
    LET r == (p - 1)
        n == nm * g
        port == IF portSet THEN {<<"MASTER_PORT", Port>>} ELSE {}
        own == CASE style = "slurm" ->
                      {<<"SLURM_NODELIST", NodeList(nm)>>, <<"SLURM_PROCID", str(r)>>,
                       <<"SLURM_NTASKS", str(n)>>, <<"SLURM_LOCALID", str(SlotOf(p, g))>>}
                 [] style = "launch" ->
                      {<<"MASTER_ADDR", <<"n", "0">>>>, <<"RANK", str(r)>>,
                       <<"WORLD_SIZE", str(n)>>, <<"LOCAL_RANK", str(SlotOf(p, g))>>}
                 [] style = "manual" ->
                      {<<"MASTER_ADDR", <<"n", "0">>>>, <<"RANK", str(r)>>,
                       <<"WORLD_SIZE", str(n)>>}
                 [] style = "rankonly" -> {<<"RANK", str(r)>>}
                 [] OTHER -> {}
    IN  MkEnv(own \cup port)

NoArgs == [local_rank |-> 0, machine_rank |-> 0, num_gpus_per_machine |-> 0,
           num_machines |-> 0]

\* what every process starts with, given the job
Fresh(n) ==
    /\ environ = environ0
    /\ frame = [p \in 1..n |-> [world_size |-> 0, world_rank |-> 0]]
    /\ pc = [p \in 1..n |-> "start"]
    /\ exc = [p \in 1..n |-> ""]
    /\ caught = [p \in 1..n |-> ""]
    /\ log = [p \in 1..n |-> <<>>]
    /\ dist = [p \in 1..n |-> [initialized |-> FALSE, rank |-> 0, world_size |-> 0]]
    /\ initcalls = [p \in 1..n |-> <<>>]
    /\ arrived = [k \in 1..2 |-> {}]
    /\ nsync = [p \in 1..n |-> 0]
    /\ devices = [p \in 1..n |-> <<>>]
    /\ ret = [p \in 1..n |-> <<>>]
    /\ tin = [p \in 1..n |-> 0]
    /\ t = [p \in 1..n |-> Frac(0, 1)]
    /\ tret = [p \in 1..n |-> <<>>]

\* a whole job: nm machines with g processes each, every member a process
Init ==
    \E nm \in 1..MaxWorld, g \in 1..MaxWorld, style \in Launchers,
       portSet \in BOOLEAN, cudaOk \in BOOLEAN :
        /\ nm * g <= MaxWorld
        /\ style = "tcp" => ~portSet
        /\ style \in Ungrouped => nm * g <= 2
        /\ mode = IF style = "tcp" THEN "tcp" ELSE "env"
        /\ cuda = [p \in 1..(nm * g) |-> cudaOk]
        /\ host = [p \in 1..(nm * g) |-> MachineOf(p, g)]
        /\ args = [p \in 1..(nm * g) |->
                     IF style = "tcp"
                     THEN [local_rank |-> SlotOf(p, g), machine_rank |-> MachineOf(p, g),
                           num_gpus_per_machine |-> g, num_machines |-> nm]
                     ELSE NoArgs]
        /\ environ0 = [p \in 1..(nm * g) |-> LaunchEnv(style, nm, g, p, portSet)]
        /\ Fresh(nm * g)

Next ==
    \/ \E p \in Procs : AssertCuda(p)
    \/ \E p \in Procs : ResolveEnv(p)
    \/ \E p \in Procs : ComputeTcp(p)
    \/ \E p \in Procs : InitProcessGroup(p)
    \/ \E p \in Procs : InitProcessGroupFails(p)
    \/ \E p \in Procs : SkipInit(p)
    \/ \E p \in Procs : SynchronizeInit(p)
    \/ \E p \in Procs : BarrierExit(p)
    \/ \E p \in Procs : BarrierFails(p)
    \/ \E p \in Procs : ExceptClause(p)
    \/ \E p \in Procs : BindDevice(p)
    \/ \E p \in Procs : SynchronizeCall(p)
    \/ \E p \in Procs, v \in {0, MaxVal} : AverageEnter(p, v)
    \/ \E p \in Procs : AllReduceExit(p)

Spec == Init /\ [][Next]_vars

\* ------------------------------------------- one process, any environment
NumStrs == {str(i) : i \in 0..MaxNum}

\* world sizes are positive
SizeStrs == {str(i) : i \in 1..MaxNum}

\* the values a variable may hold when it is set
Vals(k) ==
    CASE k = "MASTER_ADDR" -> {<<"h", ",", "g">>}
      [] k = "SLURM_NODELIST" -> {<<"a">>, <<"a", ",", "b">>, <<"a", ",">>}
      [] k = "MASTER_PORT" -> {Port}
      [] k \in {"WORLD_SIZE", "SLURM_NTASKS"} -> SizeStrs
      [] k = "SLURM_LOCALID" -> NumStrs \cup {<<"0", "1">>}
      [] OTHER -> NumStrs

\* unset (<<>>) or set to one value (<<v>>)
Opt(k) == {<<>>} \cup {<<v>> : v \in Vals(k)}

\* one process whose environment (init_distributed_env) or arguments
\* (init_distributed_tcp) are arbitrary; the other members are remote
InitEnv ==
    /\ cuda \in [{1} -> BOOLEAN]
    /\ host = [p \in {1} |-> 0]
    /\ \/ /\ mode = "env"
          /\ args = [p \in {1} |-> NoArgs]
          /\ \E a \in Opt("MASTER_ADDR"), nl \in Opt("SLURM_NODELIST"),
                pt \in Opt("MASTER_PORT"), r \in Opt("RANK"), pid \in Opt("SLURM_PROCID"),
                ws \in Opt("WORLD_SIZE"), nt \in Opt("SLURM_NTASKS"),
                lr \in Opt("LOCAL_RANK"), lid \in Opt("SLURM_LOCALID") :
                LET o == {<<"MASTER_ADDR", a>>, <<"SLURM_NODELIST", nl>>,
                          <<"MASTER_PORT", pt>>, <<"RANK", r>>, <<"SLURM_PROCID", pid>>,
                          <<"WORLD_SIZE", ws>>, <<"SLURM_NTASKS", nt>>,
                          <<"LOCAL_RANK", lr>>, <<"SLURM_LOCALID", lid>>}
                IN  environ0 = [p \in {1} |->
                                  MkEnv({<<x[1], x[2][1]>> : x \in {y \in o : y[2] # <<>>}})]
       \/ /\ mode = "tcp"
          /\ args \in [{1} -> [local_rank : 0..MaxNum, machine_rank : 0..MaxNum,
                               num_gpus_per_machine : 0..MaxNum, num_machines : 0..MaxNum]]
          /\ environ0 \in {[p \in {1} |-> MkEnv({})],
                           [p \in {1} |-> MkEnv({<<"MASTER_PORT", Port>>})]}
    /\ Fresh(1)

NextEnv ==
    \/ \E p \in Procs : AssertCuda(p)
    \/ \E p \in Procs : ResolveEnv(p)
    \/ \E p \in Procs : ComputeTcp(p)
    \/ \E p \in Procs : InitProcessGroup(p)
    \/ \E p \in Procs : InitProcessGroupFails(p)
    \/ \E p \in Procs : SkipInit(p)
    \/ \E p \in Procs : SynchronizeInit(p)
    \/ \E p \in Procs : BarrierExit(p)
    \/ \E p \in Procs : BarrierFails(p)
    \/ \E p \in Procs : ExceptClause(p)
    \/ \E p \in Procs : BindDevice(p)
    \/ \E k \in Peers : PeerArrive(k)

SpecEnv == InitEnv /\ [][NextEnv]_vars

\* ================================================================= claims
\* process p has resolved its configuration: it passed the assertion and,
\* for init_distributed_env, the three assignments to os.environ
Resolved(p) == pc[p] \notin {"start", "resolve", "compute"} /\ exc[p] # "AssertionError"

\* process p has reached the device binding of its initializer, or is past it
PastInit(p) == pc[p] = "bind" \/ devices[p] # <<>> \/ ret[p] # <<>>

\* the members of the job that have joined the group
Joined == {q \in Procs : is_initialized(q)}

\* C1: in both initializers, when the resolved world_size is greater than 1, no
\* process binds its device or returns from the initializer before all
\* world_size processes have completed init_process_group.
C1_BarrierHoldsBack ==
    \A p \in Procs :
        (PastInit(p) /\ WorldSizeTested(p) > 1)
            => /\ Joined = Procs
               /\ Cardinality(Joined) = WorldSizeTested(p)

\* C1 witness: in a job of at least three processes one process has returned
\* from init_distributed_tcp while another still waits in the barrier.
C1_Witness ==
    /\ mode = "tcp"
    /\ Cardinality(Procs) >= 3
    /\ \E p, q \in Procs : ret[p] # <<>> /\ WorldSizeTested(p) > 1 /\ pc[q] = "barrier"

\* C2: when a process's resolved world_size is 1 no group is formed, and then
\* get_rank is 0, get_world_size is 1, is_master_process is true, synchronize
\* never blocks in a barrier, and average_across_processes returns its input
\* unchanged.
C2_SingleProcessDefaults ==
    \A p \in Procs :
        (Resolved(p) /\ WorldSizeTested(p) = 1)
            => /\ ~is_initialized(p)
               /\ initcalls[p] = <<>>
               /\ get_rank(p) = 0
               /\ get_world_size(p) = 1
               /\ is_master_process(p)
               /\ pc[p] \notin {"barrier", "sync_barrier"}
               /\ nsync[p] = 0
               /\ pc[p] = "averaged" => /\ tret[p] = <<Frac(tin[p], 1)>>
                                        /\ t[p] = Frac(tin[p], 1)

\* C2 witness: a process launched with $RANK = 1 and no world size has
\* resolved world_size 1, called synchronize and got a non-zero tensor back
\* from average_across_processes.
C2_Witness ==
    \E p \in Procs :
        /\ mode = "env"
        /\ "RANK" \in DOMAIN environ0[p]
        /\ environ0[p]["RANK"] = <<"1">>
        /\ Resolved(p)
        /\ WorldSizeTested(p) = 1
        /\ pc[p] = "averaged"
        /\ tin[p] > 0

\* C2 second case, reached as well: init_distributed_tcp with one process,
\* which goes through the initializer's own synchronize
C2_WitnessTcp ==
    \E p \in Procs :
        /\ mode = "tcp"
        /\ Resolved(p)
        /\ WorldSizeTested(p) = 1
        /\ pc[p] = "averaged"
        /\ tin[p] > 0

\* C7: once a group of N > 1 processes is formed and every process has called
\* average_across_processes with its own value, each process holds the same
\* result, (v_0 + ... + v_{N-1}) / N, both as the return value and in its
\* input tensor; without a group the input comes back unchanged.
C7_MeanReduce ==
    \A p \in Procs :
        pc[p] = "averaged" =>
            /\ tret[p] = <<t[p]>>
            /\ IF is_initialized(p)
               THEN /\ t[p][1] * Cardinality(Procs) = SumOver(Procs, tin) * t[p][2]
                    /\ t[p][2] > 0
                    /\ \A q \in Procs : pc[q] = "averaged" => t[q] = t[p]
               ELSE t[p][1] = tin[p] * t[p][2]

\* C7 witness: three processes hold a mean that is not a whole number.
C7_Witness ==
    /\ Cardinality(Procs) = 3
    /\ \A p \in Procs : pc[p] = "averaged" /\ is_initialized(p) /\ t[p][2] = 3

\* C8: after group formation from a configuration with rank r and world_size
\* w > 1, get_rank is r, get_world_size is w, is_master_process holds exactly
\* when r = 0, and when all processes of the job have joined exactly one of
\* them is the master.
C8_Queries ==
    /\ \A p \in Procs :
          is_initialized(p) =>
              /\ InitArgs(p).world_size > 1
              /\ get_rank(p) = InitArgs(p).rank
              /\ get_rank(p) = p - 1
              /\ get_world_size(p) = InitArgs(p).world_size
              /\ get_world_size(p) = Cardinality(Procs)
              /\ is_master_process(p) <=> (InitArgs(p).rank = 0)
    /\ (Joined = Procs) => Cardinality({p \in Procs : is_master_process(p)}) = 1

\* C8 witness: $RANK = 2 and $WORLD_SIZE = 4, the group is formed, the process
\* is not the master.
C8_Witness ==
    \E p \in Procs :
        /\ mode = "env"
        /\ "RANK" \in DOMAIN environ0[p] /\ environ0[p]["RANK"] = <<"2">>
        /\ "WORLD_SIZE" \in DOMAIN environ0[p] /\ environ0[p]["WORLD_SIZE"] = <<"4">>
        /\ Joined = Procs
        /\ get_rank(p) = 2
        /\ ~is_master_process(p)

\* the processes of an init_distributed_tcp job that have computed their rank
Computed == {p \in Procs : Resolved(p)}

\* C9: init_distributed_tcp hands world_size = num_machines *
\* num_gpus_per_machine and rank = machine_rank * num_gpus_per_machine +
\* local_rank to init_process_group; over all machines and slots the ranks are
\* pairwise distinct and cover exactly 0 .. world_size - 1 (slot 1 of machine 1
\* of 2 x 2 gets rank 3 of 4).
C9_TcpRanks ==
    mode = "tcp" =>
        /\ \A p \in Procs :
              /\ initcalls[p] # <<>> =>
                    /\ initcalls[p][1].world_size = Cardinality(Procs)
                    /\ initcalls[p][1].rank = frame[p].world_rank
                    /\ Len(initcalls[p]) = 1
              /\ (p \in Computed /\ args[p] = [local_rank |-> 1, machine_rank |-> 1,
                                               num_gpus_per_machine |-> 2,
                                               num_machines |-> 2])
                    => frame[p] = [world_size |-> 4, world_rank |-> 3]
              /\ p \in Computed => frame[p].world_size = Cardinality(Procs)
        /\ \A p, q \in Computed : p # q => frame[p].world_rank # frame[q].world_rank
        /\ Computed = Procs =>
              {frame[p].world_rank : p \in Procs} = 0..(Cardinality(Procs) - 1)

\* C9 witness: the four processes of two machines with two devices each have
\* all called init_process_group.
C9_Witness ==
    /\ mode = "tcp"
    /\ \A p \in Procs : initcalls[p] # <<>>
    /\ \E p \in Procs : args[p] = [local_rank |-> 1, machine_rank |-> 1,
                                   num_gpus_per_machine |-> 2, num_machines |-> 2]

\* C6: two processes of one group that share a machine and have distinct global
\* ranks never pass the same device index to torch.cuda.set_device.
C6_DistinctDevices ==
    \A p, q \in Procs :
        (/\ p # q
         /\ host[p] = host[q]
         /\ is_initialized(p) /\ is_initialized(q)
         /\ get_rank(p) # get_rank(q)
         /\ devices[p] # <<>> /\ devices[q] # <<>>)
            => devices[p][1] # devices[q][1]

\* C3: whenever init_process_group or the barrier after it fails inside an
\* initializer, the initializer logs the resolved rendezvous address and port
\* and then raises the original failure, in every environment, also when
\* $MASTER_PORT was never set.
C3_LogThenReraise ==
    \A p \in Procs :
        (pc[p] = "raised" /\ caught[p] # "")
            => /\ exc[p] = caught[p]
               /\ Len(log[p]) = 1
               /\ log[p][1][1] = "Dist URL: "

\* x is the last comma-separated entry of s
IsLastEntry(x, s) ==
    /\ \A i \in 1..Len(x) : x[i] # ","
    /\ Len(x) <= Len(s)
    /\ \A i \in 1..Len(x) : x[i] = s[Len(s) - Len(x) + i]
    /\ Len(x) < Len(s) => s[Len(s) - Len(x)] = ","

\* the value of the chain override -> scheduler variable -> default in e
ChainValue(e, override, scheduler, default) ==
    IF override \in DOMAIN e THEN e[override]
    ELSE IF scheduler \in DOMAIN e THEN e[scheduler]
    ELSE default

\* C4: init_distributed_env resolves address, rank, world_size and local_rank
\* by the chain override -> scheduler variable -> default (MASTER_ADDR, else
\* the last comma-separated entry of SLURM_NODELIST, else localhost; RANK,
\* SLURM_PROCID, 0; WORLD_SIZE, SLURM_NTASKS, 1; LOCAL_RANK, SLURM_LOCALID, 0);
\* an override that is set wins and is used as given; address, rank and
\* world_size are written back to MASTER_ADDR, RANK and WORLD_SIZE, are what
\* init_process_group gets, and local_rank is the device bound and returned.
C4_FallbackChain ==
    \A p \in Procs :
        (mode = "env" /\ Resolved(p)) =>
            LET e0 == environ0[p]
                e == environ[p]
                rank == ChainValue(e0, "RANK", "SLURM_PROCID", <<"0">>)
                world_size == ChainValue(e0, "WORLD_SIZE", "SLURM_NTASKS", <<"1">>)
                local_rank == ChainValue(e0, "LOCAL_RANK", "SLURM_LOCALID", <<"0">>)
            IN  /\ DOMAIN e = DOMAIN e0 \cup {"MASTER_ADDR", "RANK", "WORLD_SIZE"}
                /\ \A k \in DOMAIN e0 \ {"MASTER_ADDR", "RANK", "WORLD_SIZE"} : e[k] = e0[k]
                /\ IF "MASTER_ADDR" \in DOMAIN e0 THEN e["MASTER_ADDR"] = e0["MASTER_ADDR"]
                   ELSE IF "SLURM_NODELIST" \in DOMAIN e0
                        THEN IsLastEntry(e["MASTER_ADDR"], e0["SLURM_NODELIST"])
                        ELSE e["MASTER_ADDR"] = <<"localhost">>
                /\ e["RANK"] = rank
                /\ e["WORLD_SIZE"] = world_size
                /\ \A i \in 1..Len(initcalls[p]) :
                      /\ initcalls[p][i].rank = int(rank)
                      /\ initcalls[p][i].world_size = int(world_size)
                /\ (initcalls[p] # <<>>) <=> (pc[p] # "try" /\ int(world_size) > 1)
                /\ ret[p] # <<>> =>
                      /\ devices[p] = ret[p]
                      /\ ret[p] = <<int(local_rank)>>

\* C4 witness: every override and every scheduler variable is set, pairwise to
\* different values, the group of two was formed and the device is bound.
C4_Witness ==
    \E p \in Procs :
        /\ mode = "env"
        /\ DOMAIN environ0[p] = EnvVars
        /\ environ0[p]["RANK"] # environ0[p]["SLURM_PROCID"]
        /\ environ0[p]["WORLD_SIZE"] # environ0[p]["SLURM_NTASKS"]
        /\ environ0[p]["LOCAL_RANK"] # environ0[p]["SLURM_LOCALID"]
        /\ environ0[p]["SLURM_NODELIST"] = <<"a", ",", "b">>
        /\ is_initialized(p)
        /\ ret[p] # <<>>

\* C4 second case, reached as well: nothing but the scheduler's variables set
C4_WitnessSlurm ==
    \E p \in Procs :
        /\ mode = "env"
        /\ DOMAIN environ0[p] = {"SLURM_NODELIST", "SLURM_PROCID", "SLURM_NTASKS",
                                 "SLURM_LOCALID", "MASTER_PORT"}
        /\ environ0[p]["SLURM_NODELIST"] = <<"a", ",", "b">>
        /\ environ0[p]["SLURM_LOCALID"] = <<"0", "1">>
        /\ ret[p] = <<1>>
        /\ environ[p]["MASTER_ADDR"] = <<"b">>

\* the configuration process p uses satisfies 0 <= local_rank <= rank < world_size
ConfigInvariant(p) ==
    /\ \A i \in 1..Len(initcalls[p]) :
          /\ 0 <= initcalls[p][i].rank
          /\ initcalls[p][i].rank < initcalls[p][i].world_size
    /\ devices[p] # <<>> =>
          /\ 0 <= devices[p][1]
          /\ devices[p][1] <= (IF mode = "env" THEN int(environ[p]["RANK"])
                               ELSE frame[p].world_rank)
          /\ (IF mode = "env" THEN int(environ[p]["RANK"]) ELSE frame[p].world_rank)
                < WorldSizeTested(p)

\* C5 as claimed: the configuration a process resolves and uses always
\* satisfies 0 <= local_rank <= rank < world_size, in both initializers.
C5_ConfigAlwaysOrdered == \A p \in Procs : ConfigInvariant(p)

\* the three values come from one source that is itself ordered: the three
\* overrides, or (no override set) the three scheduler variables, or nothing
OrderedTriple(e, lr, r, ws) ==
    /\ {lr, r, ws} \subseteq DOMAIN e
    /\ int(e[lr]) <= int(e[r])
    /\ int(e[r]) < int(e[ws])

ConsistentLaunch(p) ==
    IF mode = "tcp"
    THEN /\ 0 <= args[p].local_rank
         /\ args[p].local_rank < args[p].num_gpus_per_machine
         /\ 0 <= args[p].machine_rank
         /\ args[p].machine_rank < args[p].num_machines
    ELSE LET e == environ0[p]
             overrides == {"LOCAL_RANK", "RANK", "WORLD_SIZE"}
             scheduler == {"SLURM_LOCALID", "SLURM_PROCID", "SLURM_NTASKS"}
         IN  \/ OrderedTriple(e, "LOCAL_RANK", "RANK", "WORLD_SIZE")
             \/ /\ overrides \cap DOMAIN e = {}
                /\ OrderedTriple(e, "SLURM_LOCALID", "SLURM_PROCID", "SLURM_NTASKS")
             \/ (overrides \cup scheduler) \cap DOMAIN e = {}

\* C5 as amended: neither initializer validates its input; the configuration
\* satisfies 0 <= local_rank <= rank < world_size when init_distributed_tcp is
\* called with 0 <= local_rank < num_gpus_per_machine and 0 <= machine_rank <
\* num_machines, and when the environment of init_distributed_env holds
\* non-negative numbers and sets RANK, WORLD_SIZE and LOCAL_RANK to ordered
\* values, or sets none of them and SLURM_PROCID, SLURM_NTASKS and
\* SLURM_LOCALID to ordered values, or sets none of the six.
C5_ConfigOrderedIfLaunchIs ==
    \A p \in Procs : ConsistentLaunch(p) => ConfigInvariant(p)

\* C5 witness: a process whose three overrides are ordered while the
\* scheduler's variables are not has joined the group and bound its device.
C5_Witness ==
    \E p \in Procs :
        /\ mode = "env"
        /\ ConsistentLaunch(p)
        /\ {"SLURM_LOCALID", "SLURM_PROCID", "SLURM_NTASKS"} \subseteq DOMAIN environ0[p]
        /\ ~OrderedTriple(environ0[p], "SLURM_LOCALID", "SLURM_PROCID", "SLURM_NTASKS")
        /\ initcalls[p] # <<>>
        /\ devices[p] = <<1>>

\* C5 witness for init_distributed_tcp, reached as well
C5_WitnessTcp ==
    \E p \in Procs :
        /\ mode = "tcp"
        /\ ConsistentLaunch(p)
        /\ frame[p].world_rank > args[p].local_rank
        /\ args[p].local_rank > 0
        /\ devices[p] # <<>>

\* C10: without an accelerator either initializer fails with the assertion
\* before it touches the environment: os.environ is as it was at the call, no
\* group initialization is attempted, nothing is logged and no device is bound.
C10_DeviceUnavailable ==
    \A p \in Procs :
        ~cuda[p] =>
            /\ pc[p] \in {"start", "raised"}
            /\ pc[p] = "raised" => exc[p] = "AssertionError"
            /\ environ[p] = environ0[p]
            /\ initcalls[p] = <<>>
            /\ ~is_initialized(p)
            /\ devices[p] = <<>>
            /\ ret[p] = <<>>
            /\ log[p] = <<>>

\* C10 witness: init_distributed_env has failed its assertion in an environment
\* where its assignments would have added MASTER_ADDR, RANK and WORLD_SIZE.
C10_Witness ==
    \E p \in Procs :
        /\ mode = "env"
        /\ pc[p] = "raised"
        /\ exc[p] = "AssertionError"
        /\ {"MASTER_ADDR", "RANK", "WORLD_SIZE"} \cap DOMAIN environ0[p] = {}
        /\ "SLURM_NTASKS" \in DOMAIN environ0[p]

====
